---- MODULE Spec2Model ----
(***************************************************************************)
(* GitDiffer change viewer (src/unnamed/part_001): the module-level state  *)
(* DATA / LAST_FILTERED / PAGE / PAGE_SIZE / CURRENT_RENDERED, the filter  *)
(* inputs, the rendered page, and one action per event handler.            *)
(*                                                                         *)
(* A JavaScript string is the sequence of its UTF-16 code units, so that   *)
(* toLowerCase, trim, includes, join and the default sort order are        *)
(* computed and not assumed.  A JavaScript value is a record [t, v]: t is  *)
(* its type tag and v its content as a sequence of strings (a string is    *)
(* <<s>>, an array of strings is the array, a number n is <<<<n>>>>,       *)
(* null and undefined are <<>>).                                           *)
(***************************************************************************)
EXTENDS Integers, Sequences, FiniteSets

\* ------------------------------------------------------------ bounds
\* longest array a load delivers
MaxLen ==
    2

\* ------------------------------------------------------- JS values
Undef == [t |-> "undefined", v |-> <<>>]
Null == [t |-> "null", v |-> <<>>]
Str(s) == [t |-> "string", v |-> <<s>>]
Arr(a) == [t |-> "array", v |-> a]
Num(n) == [t |-> "number", v |-> <<<<n>>>>]

\* Boolean(x), as used by filter(Boolean) and by && / ||
Truthy(x) ==
    CASE x.t = "string" -> x.v[1] # <<>>
      [] x.t = "number" -> x.v[1][1] # 0
      [] x.t = "array" -> TRUE
      [] OTHER -> FALSE

Min(a, b) == IF a < b THEN a ELSE b
Max(a, b) == IF a > b THEN a ELSE b

\* ------------------------------------------------------- strings
\* "insert"
S_insert ==
    <<105, 110, 115, 101, 114, 116>>
\* "replace"
S_replace ==
    <<114, 101, 112, 108, 97, 99, 101>>
\* "delete"
S_delete ==
    <<100, 101, 108, 101, 116, 101>>
\* "file-deleted"
S_file_deleted ==
    <<102, 105, 108, 101, 45, 100, 101, 108, 101, 116, 101, 100>>
\* "block"
S_block ==
    <<98, 108, 111, 99, 107>>
\* "kv"
S_kv ==
    <<107, 118>>
\* "plist-kv"
S_plist_kv ==
    <<112, 108, 105, 115, 116, 45, 107, 118>>
\* "all"
S_all ==
    <<97, 108, 108>>
\* "undefined"
S_undefined ==
    <<117, 110, 100, 101, 102, 105, 110, 101, 100>>
\* "null"
S_null ==
    <<110, 117, 108, 108>>

\* one code unit of String.prototype.toLowerCase (the ASCII letters)
LowerUnit(c) == IF c >= 65 /\ c <= 90 THEN c + 32 ELSE c
toLowerCase(s) == [i \in 1..Len(s) |-> LowerUnit(s[i])]

\* white space that String.prototype.trim strips (tab, LF, CR, space)
IsSpace(c) == c \in {9, 10, 13, 32}
RECURSIVE TrimStart(_)
TrimStart(s) ==
    IF s # <<>> /\ IsSpace(Head(s)) THEN TrimStart(Tail(s)) ELSE s
RECURSIVE TrimEnd(_)
TrimEnd(s) ==
    IF s # <<>> /\ IsSpace(s[Len(s)]) THEN TrimEnd(SubSeq(s, 1, Len(s) - 1)) ELSE s
trim(s) == TrimEnd(TrimStart(s))

\* String.prototype.includes: some start position k at which needle is read
includes(hay, needle) ==
    \E k \in 1..(Len(hay) - Len(needle) + 1) :
        SubSeq(hay, k, k + Len(needle) - 1) = needle

\* Array.prototype.join over an array of strings
RECURSIVE join(_, _)
join(a, sep) ==
    IF a = <<>> THEN <<>>
    ELSE IF Len(a) = 1 THEN a[1]
    ELSE a[1] \o sep \o join(Tail(a), sep)

\* the order of the default Array.prototype.sort: code unit by code unit,
\* a proper prefix first
RECURSIVE StrLess(_, _)
StrLess(s, u) ==
    IF u = <<>> THEN FALSE
    ELSE IF s = <<>> THEN TRUE
    ELSE IF Head(s) # Head(u) THEN Head(s) < Head(u)
    ELSE StrLess(Tail(s), Tail(u))

\* Array.prototype.sort() of an array of strings (insertion into place)
RECURSIVE InsertSorted(_, _)
InsertSorted(sorted, s) ==
    IF sorted = <<>> THEN <<s>>
    ELSE IF StrLess(s, Head(sorted)) THEN <<s>> \o sorted
    ELSE <<Head(sorted)>> \o InsertSorted(Tail(sorted), s)
RECURSIVE sort(_)
sort(a) ==
    IF a = <<>> THEN <<>> ELSE InsertSorted(sort(SubSeq(a, 1, Len(a) - 1)), a[Len(a)])

\* the decimal digits of a natural number
RECURSIVE Digits(_)
Digits(n) ==
    IF n < 10 THEN <<48 + n>> ELSE Digits(n \div 10) \o <<48 + (n % 10)>>

\* String(x) of a property key or a joined element
StringOf(x) ==
    CASE x.t = "string" -> x.v[1]
      [] x.t = "null" -> S_null
      [] x.t = "undefined" -> S_undefined
      [] x.t = "array" -> join(x.v, <<44>>)
      [] x.t = "number" -> Digits(x.v[1][1])

\* ------------------------------------------------- change records
\* An element of a loaded array: an object with the Change Record fields
\* (an absent key reads as undefined), or the JSON value null.
Rec(file, ct, ctx, lo, ln, prop, old, new, ol, nl) ==
    [isNull |-> FALSE, file |-> file, change_type |-> ct, context |-> ctx,
     line_old |-> lo, line_new |-> ln, property |-> prop,
     old |-> old, new |-> new, old_lines |-> ol, new_lines |-> nl]
NullRec ==
    [isNull |-> TRUE, file |-> Undef, change_type |-> Undef, context |-> Undef,
     line_old |-> Undef, line_new |-> Undef, property |-> Undef,
     old |-> Undef, new |-> Undef, old_lines |-> Undef, new_lines |-> Undef]

\* {"file":"a","property":null,"line_old":1,"line_new":1,"context":"block",
\*  "old_lines":["b"],"new_lines":["c"],"change_type":"replace"}
RecA1 ==
    Rec(Str(<<97>>), Str(S_replace), Str(S_block), Num(1), Num(1), Null,
        Undef, Undef, Arr(<< <<98>> >>), Arr(<< <<99>> >>))
\* {"file":"a","property":"b","old":null,"new":"A","line_old":null,
\*  "line_new":2,"context":"kv","change_type":"insert"}
RecA2 ==
    Rec(Str(<<97>>), Str(S_insert), Str(S_kv), Null, Num(2), Str(<<98>>),
        Null, Str(<<65>>), Undef, Undef)
\* {"file":"B","property":"p","old":"q","new":"r","line_old":3,
\*  "line_new":3,"context":"plist-kv","change_type":"replace"}
RecB1 ==
    Rec(Str(<<66>>), Str(S_replace), Str(S_plist_kv), Num(3), Num(3), Str(<<112>>),
        Str(<<113>>), Str(<<114>>), Undef, Undef)

\* the records the loaded arrays are built from
\* a record of a file named "constructor"
RecC1 ==
    Rec(Str(<<99, 111, 110, 115, 116, 114, 117, 99, 116, 111, 114>>), Str(S_insert), Str(S_block), Null, Num(1), Null,
        Undef, Undef, Arr(<<>>), Arr(<<<<99>>>>))
Records == {RecA1, RecA2, RecB1}

\* "Scripts/Powershell/Script Data/intunecd_appreg.ps1"
S_s1file ==
    <<83, 99, 114, 105, 112, 116, 115, 47, 80, 111, 119, 101, 114, 115, 104, 101, 108, 108, 47, 83, 99, 114, 105, 112, 116, 32, 68, 97, 116, 97, 47, 105, 110, 116, 117, 110, 101, 99, 100, 95, 97, 112, 112, 114, 101, 103, 46, 112, 115, 49>>
\* "$appName = \"IntuneCD-Monitor\""
S_s1old ==
    <<36, 97, 112, 112, 78, 97, 109, 101, 32, 61, 32, 34, 73, 110, 116, 117, 110, 101, 67, 68, 45, 77, 111, 110, 105, 116, 111, 114, 34>>
\* "$appName = \"IntuneCD\""
S_s1new ==
    <<36, 97, 112, 112, 78, 97, 109, 101, 32, 61, 32, 34, 73, 110, 116, 117, 110, 101, 67, 68, 34>>
\* "Settings Catalog/Baseline - W365_mdm.json"
S_s2file ==
    <<83, 101, 116, 116, 105, 110, 103, 115, 32, 67, 97, 116, 97, 108, 111, 103, 47, 66, 97, 115, 101, 108, 105, 110, 101, 32, 45, 32, 87, 51, 54, 53, 95, 109, 100, 109, 46, 106, 115, 111, 110>>
\* "value"
S_s2prop ==
    <<118, 97, 108, 117, 101>>
\* "\"device_vendor_msft_policy_config_devicelock_preventenablinglockscreencamera_1\""
S_s2old ==
    <<34, 100, 101, 118, 105, 99, 101, 95, 118, 101, 110, 100, 111, 114, 95, 109, 115, 102, 116, 95, 112, 111, 108, 105, 99, 121, 95, 99, 111, 110, 102, 105, 103, 95, 100, 101, 118, 105, 99, 101, 108, 111, 99, 107, 95, 112, 114, 101, 118, 101, 110, 116, 101, 110, 97, 98, 108, 105, 110, 103, 108, 111, 99, 107, 115, 99, 114, 101, 101, 110, 99, 97, 109, 101, 114, 97, 95, 49, 34>>
\* "\"device_vendor_msft_policy_config_devicelock_preventenablinglockscreencamera_0\""
S_s2new ==
    <<34, 100, 101, 118, 105, 99, 101, 95, 118, 101, 110, 100, 111, 114, 95, 109, 115, 102, 116, 95, 112, 111, 108, 105, 99, 121, 95, 99, 111, 110, 102, 105, 103, 95, 100, 101, 118, 105, 99, 101, 108, 111, 99, 107, 95, 112, 114, 101, 118, 101, 110, 116, 101, 110, 97, 98, 108, 105, 110, 103, 108, 111, 99, 107, 115, 99, 114, 101, 101, 110, 99, 97, 109, 101, 114, 97, 95, 48, 34>>
\* "Assignment Report/report.json"
S_s3file ==
    <<65, 115, 115, 105, 103, 110, 109, 101, 110, 116, 32, 82, 101, 112, 111, 114, 116, 47, 114, 101, 112, 111, 114, 116, 46, 106, 115, 111, 110>>

\* SampleData with a line left in the old_lines of the file-deleted record
SampleData_DeletedWithLines ==
    << Rec(Str(S_s1file), Str(S_replace), Str(S_block), Num(14), Num(14), Null,
           Undef, Undef, Arr(<<S_s1old>>), Arr(<<S_s1new>>)),
       Rec(Str(S_s2file), Str(S_replace), Str(S_kv), Num(28), Num(28), Str(S_s2prop),
           Str(S_s2old), Str(S_s2new), Undef, Undef),
       Rec(Str(S_s3file), Str(S_file_deleted), Str(S_block), Num(1), Null, Null,
           Undef, Undef, Arr(<<S_s1old>>), Arr(<<>>)) >>

\* the array literal of the "Load sample" handler
SampleData ==
    << Rec(Str(S_s1file), Str(S_replace), Str(S_block), Num(14), Num(14), Null,
           Undef, Undef, Arr(<<S_s1old>>), Arr(<<S_s1new>>)),
       Rec(Str(S_s2file), Str(S_replace), Str(S_kv), Num(28), Num(28), Str(S_s2prop),
           Str(S_s2old), Str(S_s2new), Undef, Undef),
       Rec(Str(S_s3file), Str(S_file_deleted), Str(S_block), Num(1), Null, Null,
           Undef, Undef, Arr(<<>>), Arr(<<>>)) >>

\* ------------------------------------------------- pure helpers
\* groupBy(arr, key) with key = 'file': the object built by reduce, as the
\* list of its own keys in insertion order with each key's array.  Reading
\* x[key] of null throws a TypeError; so does (m[k] ||= []).push(x) when k
\* names an inherited property, m[k] being truthy and .push undefined.
\* the property names a plain object {} inherits from Object.prototype: the
\* value read under each is an object or a function, truthy and without a
\* push method
InheritedKeys ==
    { <<99, 111, 110, 115, 116, 114, 117, 99, 116, 111, 114>>,
      <<95, 95, 100, 101, 102, 105, 110, 101, 71, 101, 116, 116, 101, 114, 95, 95>>,
      <<95, 95, 100, 101, 102, 105, 110, 101, 83, 101, 116, 116, 101, 114, 95, 95>>,
      <<104, 97, 115, 79, 119, 110, 80, 114, 111, 112, 101, 114, 116, 121>>,
      <<95, 95, 108, 111, 111, 107, 117, 112, 71, 101, 116, 116, 101, 114, 95, 95>>,
      <<95, 95, 108, 111, 111, 107, 117, 112, 83, 101, 116, 116, 101, 114, 95, 95>>,
      <<105, 115, 80, 114, 111, 116, 111, 116, 121, 112, 101, 79, 102>>,
      <<112, 114, 111, 112, 101, 114, 116, 121, 73, 115, 69, 110, 117, 109, 101, 114, 97, 98, 108, 101>>,
      <<116, 111, 83, 116, 114, 105, 110, 103>>,
      <<118, 97, 108, 117, 101, 79, 102>>,
      <<95, 95, 112, 114, 111, 116, 111, 95, 95>>,
      <<116, 111, 76, 111, 99, 97, 108, 101, 83, 116, 114, 105, 110, 103>> }
groupByThrows(arr) ==
    \E i \in 1..Len(arr) : arr[i].isNull \/ StringOf(arr[i].file) \in InheritedKeys
RECURSIVE groupByInto(_, _)
groupByInto(m, arr) ==
    IF arr = <<>> THEN m
    ELSE LET x == Head(arr)
             k == StringOf(x.file)
             hit == {i \in 1..Len(m) : m[i].key = k}
             m2 == IF hit = {}
                   THEN Append(m, [key |-> k, items |-> <<x>>])
                   ELSE [i \in 1..Len(m) |->
                            IF i \in hit
                            THEN [m[i] EXCEPT !.items = Append(@, x)]
                            ELSE m[i]]
         IN groupByInto(m2, Tail(arr))
groupBy(arr) == groupByInto(<<>>, arr)

\* (x || []).join('\n') of a line-content field
JoinLines(x) == join(IF Truthy(x) THEN x.v ELSE <<>>, <<10>>)

RECURSIVE FilterTruthy(_)
FilterTruthy(a) ==
    IF a = <<>> THEN <<>>
    ELSE IF Truthy(Head(a)) THEN <<Head(a)>> \o FilterTruthy(Tail(a))
    ELSE FilterTruthy(Tail(a))

\* Hay with the kept fields joined without the separating space
Hay_Unseparated(c) ==
    LET parts == <<c.file, c.property, c.old, c.new,
                   Str(JoinLines(c.old_lines)), Str(JoinLines(c.new_lines))>>
        kept == FilterTruthy(parts)
    IN toLowerCase(join([i \in 1..Len(kept) |-> StringOf(kept[i])], <<>>))

\* the haystack of one record in applyFilters
Hay(c) ==
    LET parts == <<c.file, c.property, c.old, c.new,
                   Str(JoinLines(c.old_lines)), Str(JoinLines(c.new_lines))>>
        kept == FilterTruthy(parts)
    IN toLowerCase(join([i \in 1..Len(kept) |-> StringOf(kept[i])], <<32>>))

\* the callback of DATA.filter in applyFilters, for the query q (already
\* lower-cased and trimmed) and the two select values
FilterKeeps(c, q, tf, cf) ==
    IF tf # <<>> /\ c.change_type # Str(tf) THEN FALSE
    ELSE IF cf # <<>> /\ c.context # Str(cf) THEN FALSE
    ELSE IF q = <<>> THEN TRUE
    ELSE includes(Hay(c), q)
\* the callback throws a TypeError on its first property read of null
FilterCallbackThrows(c, q, tf, cf) ==
    c.isNull /\ (tf # <<>> \/ cf # <<>> \/ q # <<>>)

RECURSIVE SelectRecs(_, _, _, _)
SelectRecs(arr, q, tf, cf) ==
    IF arr = <<>> THEN <<>>
    ELSE IF FilterKeeps(Head(arr), q, tf, cf)
         THEN <<Head(arr)>> \o SelectRecs(Tail(arr), q, tf, cf)
         ELSE SelectRecs(Tail(arr), q, tf, cf)

Count(arr, P(_)) == Cardinality({i \in 1..Len(arr) : P(arr[i])})

\* ------------------------------------------------- state
VARIABLES
    DATA,               \* let DATA
    LAST_FILTERED,      \* let LAST_FILTERED
    PAGE,               \* let PAGE
    PAGE_SIZE,          \* let PAGE_SIZE: [all |-> TRUE] is 'all', else the number n
    CURRENT_RENDERED,   \* let CURRENT_RENDERED
    filesEl,            \* #files: the rendered groups, each with its items
    summaryEl,          \* #summary: the values of the six cards
    pager,              \* the label and the disabled flags of both pagers
    qValue,             \* #q.value
    typeFilterValue,    \* #typeFilter.value
    ctxFilterValue,     \* #ctxFilter.value
    pasteDialogOpen,    \* #pasteDialog is shown modally
    alertShown,         \* the message of the alert() the running handler waits in
    pair,               \* the file pair handed to the Change Extractor
    output,             \* the Change Extractor's result for the pair
    call                \* a call of renderFiles on its own: argument and outcome

view == <<DATA, LAST_FILTERED, PAGE, PAGE_SIZE, CURRENT_RENDERED, filesEl, summaryEl, pager>>
inputs == <<qValue, typeFilterValue, ctxFilterValue>>
extractorVars == <<pair, output>>
vars == <<view, inputs, pasteDialogOpen, alertShown, extractorVars, call>>

SizeAll == [all |-> TRUE, n |-> 0]
SizeOf(n) == [all |-> FALSE, n |-> n]

\* the variables and the DOM values a function of the script reads and
\* writes, as one record; threw is set when the function ended by throwing
Cur ==
    [DATA |-> DATA, LAST_FILTERED |-> LAST_FILTERED, PAGE |-> PAGE, PAGE_SIZE |-> PAGE_SIZE,
     CURRENT_RENDERED |-> CURRENT_RENDERED, filesEl |-> filesEl, summaryEl |-> summaryEl,
     pager |-> pager, qValue |-> qValue, typeFilterValue |-> typeFilterValue,
     ctxFilterValue |-> ctxFilterValue, pasteDialogOpen |-> pasteDialogOpen, threw |-> FALSE]
Commit(st) ==
    /\ DATA' = st.DATA
    /\ LAST_FILTERED' = st.LAST_FILTERED
    /\ PAGE' = st.PAGE
    /\ PAGE_SIZE' = st.PAGE_SIZE
    /\ CURRENT_RENDERED' = st.CURRENT_RENDERED
    /\ filesEl' = st.filesEl
    /\ summaryEl' = st.summaryEl
    /\ pager' = st.pager
    /\ qValue' = st.qValue
    /\ typeFilterValue' = st.typeFilterValue
    /\ ctxFilterValue' = st.ctxFilterValue
    /\ pasteDialogOpen' = st.pasteDialogOpen
    /\ UNCHANGED <<extractorVars, call>>

NoAlert == "none"

\* ------------------------------------------------- rendering
IsType(c, s) == c.change_type = Str(s)
IsKvContext(c) == c.context = Str(S_kv) \/ c.context = Str(S_plist_kv)
IsBlockContext(c) == c.context = Str(S_block)

\* renderSummary reads c.change_type of every element
renderSummaryThrows(changes) == \E i \in 1..Len(changes) : changes[i].isNull
IsReplace(c) == IsType(c, S_replace)
IsInsert(c) == IsType(c, S_insert)
IsDelete(c) == IsType(c, S_delete)
renderSummary(changes) ==
    [total |-> Len(changes),
     replace |-> Count(changes, IsReplace),
     insert |-> Count(changes, IsInsert),
     delete |-> Count(changes, IsDelete),
     kv |-> Count(changes, IsKvContext),
     block |-> Count(changes, IsBlockContext)]

\* renderChangeItem: which of the three templates, and the index written
\* into data-copy-change
renderChangeItem(ch, idx) ==
    [template |-> IF IsKvContext(ch) THEN "kv"
                  ELSE IF IsType(ch, S_file_deleted) THEN "file-deleted"
                  ELSE "block",
     copyChange |-> idx,
     ch |-> ch]

ItemsOf(groups, fname) == groups[CHOOSE i \in 1..Len(groups) : groups[i].key = fname].items

\* the fileNames.map of renderFiles: one <details> per name, globalIndex
\* running across the groups
RECURSIVE RenderGroups(_, _, _)
RenderGroups(groups, fileNames, globalIndex) ==
    IF fileNames = <<>> THEN <<>>
    ELSE LET items == ItemsOf(groups, Head(fileNames))
         IN << [fname |-> Head(fileNames),
                items |-> [i \in 1..Len(items) |->
                              renderChangeItem(items[i], globalIndex + i - 1)]] >>
            \o RenderGroups(groups, Tail(fileNames), globalIndex + Len(items))
RECURSIVE PushedItems(_, _)
PushedItems(groups, fileNames) ==
    IF fileNames = <<>> THEN <<>>
    ELSE ItemsOf(groups, Head(fileNames)) \o PushedItems(groups, Tail(fileNames))

renderFiles(st, changes) ==
    IF groupByThrows(changes) THEN [st EXCEPT !.threw = TRUE]
    ELSE LET groups == groupBy(changes)
             fileNames == sort([i \in 1..Len(groups) |-> groups[i].key])
         IN [st EXCEPT !.CURRENT_RENDERED = PushedItems(groups, fileNames),
                       !.filesEl = RenderGroups(groups, fileNames, 0)]

\* ------------------------------------------------- paging
\* computePage with the slice starting one page late
computePage_StartsOnePageLate(filtered, page, pageSize) ==
    LET total == Len(filtered)
        size == IF pageSize.all THEN total ELSE pageSize.n
        totalPages == IF size # 0 THEN Max(1, (total + size - 1) \div size) ELSE 1
        clampedPage == Min(Max(1, page), totalPages)
        start == IF size = 0 THEN 0 ELSE clampedPage * size
        end == IF size = 0 THEN total ELSE Min(start + size, total)
    IN [total |-> total, size |-> size, totalPages |-> totalPages, page |-> clampedPage,
        start |-> start, end |-> end, pageItems |-> SubSeq(filtered, start + 1, end)]

\* computePage counting one page more when the size divides the total
computePage_ExtraPage(filtered, page, pageSize) ==
    LET total == Len(filtered)
        size == IF pageSize.all THEN total ELSE pageSize.n
        totalPages == IF size # 0 THEN Max(1, (total \div size) + 1) ELSE 1
        clampedPage == Min(Max(1, page), totalPages)
        start == IF size = 0 THEN 0 ELSE (clampedPage - 1) * size
        end == IF size = 0 THEN total ELSE Min(start + size, total)
    IN [total |-> total, size |-> size, totalPages |-> totalPages, page |-> clampedPage,
        start |-> start, end |-> end, pageItems |-> SubSeq(filtered, start + 1, end)]

computePage(filtered, page, pageSize) ==
    LET total == Len(filtered)
        size == IF pageSize.all THEN total ELSE pageSize.n
        totalPages == IF size # 0 THEN Max(1, (total + size - 1) \div size) ELSE 1
        clampedPage == Min(Max(1, page), totalPages)
        start == IF size = 0 THEN 0 ELSE (clampedPage - 1) * size
        end == IF size = 0 THEN total ELSE Min(start + size, total)
    IN [total |-> total, size |-> size, totalPages |-> totalPages, page |-> clampedPage,
        start |-> start, end |-> end, pageItems |-> SubSeq(filtered, start + 1, end)]

renderPager(st, info) ==
    [st EXCEPT !.pager =
        [noResults |-> info.total = 0,
         from |-> IF info.total = 0 THEN 0 ELSE info.start + 1,
         to |-> IF info.total = 0 THEN 0 ELSE info.end,
         total |-> info.total,
         page |-> IF info.total = 0 THEN 0 ELSE info.page,
         totalPages |-> IF info.total = 0 THEN 0 ELSE info.totalPages,
         prevDisabled |-> info.page <= 1,
         nextDisabled |-> info.page >= info.totalPages]]

updatePage(st) ==
    LET info == computePage(st.LAST_FILTERED, st.PAGE, st.PAGE_SIZE)
        s1 == [st EXCEPT !.PAGE = info.page]
        s2 == renderFiles(s1, info.pageItems)
    IN IF s2.threw THEN s2 ELSE renderPager(s2, info)

\* ------------------------------------------------- filtering
\* applyFilters with the filtered list written back to DATA
applyFilters_StoresFiltered(st) ==
    LET q == trim(toLowerCase(st.qValue))
        tf == st.typeFilterValue
        cf == st.ctxFilterValue
    IN IF \E i \in 1..Len(st.DATA) : FilterCallbackThrows(st.DATA[i], q, tf, cf)
       THEN [st EXCEPT !.threw = TRUE]
       ELSE LET s1 == [st EXCEPT !.LAST_FILTERED = SelectRecs(st.DATA, q, tf, cf),
                                 !.DATA = SelectRecs(st.DATA, q, tf, cf),
                                 !.PAGE = 1]
            IN IF renderSummaryThrows(s1.LAST_FILTERED)
               THEN [s1 EXCEPT !.threw = TRUE]
               ELSE updatePage([s1 EXCEPT !.summaryEl = renderSummary(s1.LAST_FILTERED)])

applyFilters(st) ==
    LET q == trim(toLowerCase(st.qValue))
        tf == st.typeFilterValue
        cf == st.ctxFilterValue
    IN IF \E i \in 1..Len(st.DATA) : FilterCallbackThrows(st.DATA[i], q, tf, cf)
       THEN [st EXCEPT !.threw = TRUE]
       ELSE LET s1 == [st EXCEPT !.LAST_FILTERED = SelectRecs(st.DATA, q, tf, cf),
                                 !.PAGE = 1]
            IN IF renderSummaryThrows(s1.LAST_FILTERED)
               THEN [s1 EXCEPT !.threw = TRUE]
               ELSE updatePage([s1 EXCEPT !.summaryEl = renderSummary(s1.LAST_FILTERED)])

\* ------------------------------------------------- loading
\* A text handed to JSON.parse, by what the parse makes of it: a syntax
\* error, a value that is no array, or an array with its elements.
MalformedText == [kind |-> "malformed", elems |-> <<>>]
ObjectText == [kind |-> "object", elems |-> <<>>]
ArrayText(a) == [kind |-> "array", elems |-> a]
JSONparse(txt) ==
    [threw |-> txt.kind = "malformed", isArray |-> txt.kind = "array", value |-> txt.elems]

\* the arrays delivered: every array of at most MaxLen records, one array
\* that holds a null after two records, and one that holds a record of a
\* file named "constructor"
Arrays ==
    UNION {[1..n -> Records] : n \in 0..MaxLen}
        \cup {<<RecA1, RecA2, NullRec>>, <<RecA1, RecC1>>}
Texts == {MalformedText, ObjectText} \cup {ArrayText(a) : a \in Arrays}

AlertSyntax == "Invalid JSON: SyntaxError"
AlertRoot == "Invalid JSON: Root must be an array"
AlertTypeError == "Invalid JSON: TypeError"
AlertDropType == "Please drop a JSON file."
AlertClipboard == "Clipboard failed"

\* fileInputChange with DATA assigned before the root is tested
fileInputChange_AssignsFirst(st, txt) ==
    LET parsed == JSONparse(txt)
    IN IF parsed.threw THEN [st |-> st, alert |-> AlertSyntax]
       ELSE IF ~parsed.isArray
            THEN [st |-> [st EXCEPT !.DATA = parsed.value], alert |-> AlertRoot]
       ELSE LET s1 == applyFilters([st EXCEPT !.DATA = parsed.value])
            IN [st |-> s1, alert |-> IF s1.threw THEN AlertTypeError ELSE NoAlert]

\* reader.onload of the file inputs: try { parse; DATA = parsed;
\* applyFilters() } catch { alert }
fileInputChange(st, txt) ==
    LET parsed == JSONparse(txt)
    IN IF parsed.threw THEN [st |-> st, alert |-> AlertSyntax]
       ELSE IF ~parsed.isArray THEN [st |-> st, alert |-> AlertRoot]
       ELSE LET s1 == applyFilters([st EXCEPT !.DATA = parsed.value])
            IN [st |-> s1, alert |-> IF s1.threw THEN AlertTypeError ELSE NoAlert]

\* click on #pasteApply: the same with dlg.close() before applyFilters()
pasteApply(st, txt) ==
    LET parsed == JSONparse(txt)
    IN IF parsed.threw THEN [st |-> st, alert |-> AlertSyntax]
       ELSE IF ~parsed.isArray THEN [st |-> st, alert |-> AlertRoot]
       ELSE LET s1 == [st EXCEPT !.DATA = parsed.value]
                s2 == [s1 EXCEPT !.pasteDialogOpen = FALSE]
                s3 == applyFilters(s2)
            IN [st |-> s3, alert |-> IF s3.threw THEN AlertTypeError ELSE NoAlert]

\* "application/json"
S_application_json ==
    <<97, 112, 112, 108, 105, 99, 97, 116, 105, 111, 110, 47, 106, 115, 111, 110>>
\* "image/png"
S_image_png ==
    <<105, 109, 97, 103, 101, 47, 112, 110, 103>>
\* "json", "text"
S_json ==
    <<106, 115, 111, 110>>
S_text ==
    <<116, 101, 120, 116>>
\* file.type.match(/json|text/)
TypeMatches(type) == includes(type, S_json) \/ includes(type, S_text)

\* drop on window with a file, and its reader.onload
windowDrop(st, file) ==
    IF ~TypeMatches(file.type) THEN [st |-> st, alert |-> AlertDropType]
    ELSE LET parsed == JSONparse(file.text)
         IN IF parsed.threw THEN [st |-> st, alert |-> AlertSyntax]
            ELSE IF ~parsed.isArray THEN [st |-> st, alert |-> AlertRoot]
            ELSE LET s1 == applyFilters([st EXCEPT !.DATA = parsed.value])
                 IN [st |-> s1,
                     alert |-> IF s1.threw THEN AlertTypeError ELSE NoAlert]

loadSample(st) == applyFilters([st EXCEPT !.DATA = SampleData])

\* ------------------------------------------------- filter inputs
clearFilters(st) ==
    applyFilters([st EXCEPT !.qValue = <<>>, !.typeFilterValue = <<>>, !.ctxFilterValue = <<>>])

\* ------------------------------------------------- pagination controls
\* let PAGE_SIZE = 50
InitialPageSize ==
    50
\* Number(v) || 50
FallbackPageSize ==
    50

RECURSIVE DigitsValue(_)
DigitsValue(s) == IF s = <<>> THEN 0 ELSE DigitsValue(SubSeq(s, 1, Len(s) - 1)) * 10 + (s[Len(s)] - 48)
AllDigits(s) == s # <<>> /\ \A i \in 1..Len(s) : s[i] >= 48 /\ s[i] <= 57
\* Number(v) of a string: white space trimmed, "" is 0, an optional sign
\* and decimal digits are that integer, anything else is NaN
Number(v) ==
    LET s == trim(v)
    IN IF s = <<>> THEN [nan |-> FALSE, n |-> 0]
       ELSE IF AllDigits(s) THEN [nan |-> FALSE, n |-> DigitsValue(s)]
       ELSE IF Head(s) = 45 /\ AllDigits(Tail(s)) THEN [nan |-> FALSE, n |-> 0 - DigitsValue(Tail(s))]
       ELSE IF Head(s) = 43 /\ AllDigits(Tail(s)) THEN [nan |-> FALSE, n |-> DigitsValue(Tail(s))]
       ELSE [nan |-> TRUE, n |-> 0]

rowsPerPageChange(st, v) ==
    LET num == Number(v)
        size == IF v = S_all THEN SizeAll
                ELSE SizeOf(Max(1, IF num.nan \/ num.n = 0 THEN FallbackPageSize ELSE num.n))
    IN updatePage([st EXCEPT !.PAGE_SIZE = size, !.PAGE = 1])

pagePrevClick(st) ==
    IF st.PAGE > 1 THEN updatePage([st EXCEPT !.PAGE = st.PAGE - 1]) ELSE st
pageNextClick(st) ==
    LET info == computePage(st.LAST_FILTERED, st.PAGE, st.PAGE_SIZE)
    IN IF st.PAGE < info.totalPages THEN updatePage([st EXCEPT !.PAGE = st.PAGE + 1]) ELSE st

\* ------------------------------------------------- copy
\* the data-copy-change values present under #files
CopyIndices == UNION {{filesEl[g].items[i].copyChange : i \in 1..Len(filesEl[g].items)} : g \in 1..Len(filesEl)}
\* click on a copy button: obj = CURRENT_RENDERED[idx]; the text written to
\* the clipboard is JSON.stringify(obj, null, 2); the write resolves
\* (written) or rejects, and only then is there an alert
copyClick(st, idx, written) ==
    IF idx + 1 > Len(st.CURRENT_RENDERED) THEN NoAlert
    ELSE IF written THEN NoAlert
    ELSE AlertClipboard

\* ------------------------------------------------- Change Extractor
\* The extractor script is not among the sources; it is modelled from the
\* contract of section 4.1 of the specification.
\*
\* A line of a file is written [key, value]: a line "key: value" of a
\* structured format has key in Keys, a line without key-value syntax has
\* key NoKey.  Two lines are the same text iff they are the same pair.
MaxLines ==
    2
NoKey ==
    0
Keys == {1, 2}
Values == {1, 2}
Lines == [key : {NoKey} \cup Keys, value : Values]
\* the null of line_old, line_new, property, old and new
NullField ==
    0

\* a content is absent, or a sequence of lines (possibly empty)
Absent == [present |-> FALSE, lines |-> <<>>]
Content(ls) == [present |-> TRUE, lines |-> ls]
Contents == {Absent} \cup {Content(ls) : ls \in UNION {[1..n -> Lines] : n \in 0..MaxLines}}
Formats == {"text", "kv", "plist"}
Pairs == [old : Contents, new : Contents, format : Formats]
NoPair == [old |-> Absent, new |-> Absent, format |-> "none"]
NotRun == [ran |-> FALSE, records |-> <<>>]

ChangeRecord(ct, ctx, lo, ln, prop, old, new, ol, nl) ==
    [change_type |-> ct, context |-> ctx, line_old |-> lo, line_new |-> ln,
     property |-> prop, old |-> old, new |-> new, old_lines |-> ol, new_lines |-> nl]

\* contract 1: the new content is absent
FileDeleted(old) ==
    <<ChangeRecord("file-deleted", "block",
                   IF old.present /\ old.lines # <<>> THEN 1 ELSE NullField, NullField,
                   NullField, NullField, NullField, <<>>, <<>>)>>

\* contract 2: a content parses as key-value when each line has a key and
\* no key comes twice
Parses(ls) ==
    /\ \A i \in 1..Len(ls) : ls[i].key # NoKey
    /\ \A i, j \in 1..Len(ls) : ls[i].key = ls[j].key => i = j
HasKey(ls, k) == \E i \in 1..Len(ls) : ls[i].key = k
LineOfKey(ls, k) == CHOOSE i \in 1..Len(ls) : ls[i].key = k
\* the records of the keys of the new version, in its order
RECURSIVE KvOfNew(_, _, _, _)
KvOfNew(ctx, old, new, i) ==
    IF i > Len(new) THEN <<>>
    ELSE LET k == new[i].key
             rest == KvOfNew(ctx, old, new, i + 1)
         IN IF ~HasKey(old, k)
            THEN <<ChangeRecord("insert", ctx, NullField, i, k, NullField, new[i].value,
                                <<>>, <<>>)>> \o rest
            ELSE IF old[LineOfKey(old, k)].value # new[i].value
            THEN <<ChangeRecord("replace", ctx, LineOfKey(old, k), i, k,
                                old[LineOfKey(old, k)].value, new[i].value, <<>>, <<>>)>> \o rest
            ELSE rest
\* KvOfNew with a record for every key that both versions have
RECURSIVE KvOfNew_NoValueTest(_, _, _, _)
KvOfNew_NoValueTest(ctx, old, new, i) ==
    IF i > Len(new) THEN <<>>
    ELSE LET k == new[i].key
             rest == KvOfNew_NoValueTest(ctx, old, new, i + 1)
         IN IF ~HasKey(old, k)
            THEN <<ChangeRecord("insert", ctx, NullField, i, k, NullField, new[i].value,
                                <<>>, <<>>)>> \o rest
            ELSE <<ChangeRecord("replace", ctx, LineOfKey(old, k), i, k,
                                old[LineOfKey(old, k)].value, new[i].value, <<>>, <<>>)>> \o rest
\* the records of the keys only the old version has, in its order
RECURSIVE KvOfOld(_, _, _, _)
KvOfOld(ctx, old, new, i) ==
    IF i > Len(old) THEN <<>>
    ELSE LET rest == KvOfOld(ctx, old, new, i + 1)
         IN IF ~HasKey(new, old[i].key)
            THEN <<ChangeRecord("delete", ctx, i, NullField, old[i].key, old[i].value,
                                NullField, <<>>, <<>>)>> \o rest
            ELSE rest
\* KvDiff without the test that the two values differ
KvDiff_NoValueTest(ctx, old, new) ==
    KvOfNew_NoValueTest(ctx, old, new, 1) \o KvOfOld(ctx, old, new, 1)
\* the key-value diff: the keys of the new version, then the keys removed
KvDiff(ctx, old, new) == KvOfNew(ctx, old, new, 1) \o KvOfOld(ctx, old, new, 1)

\* contract 3: the line diff, as the primitive that sets the longest common
\* prefix and suffix aside and reports what is left between them as one run
RECURSIVE CommonPrefix(_, _)
CommonPrefix(a, b) ==
    IF a = <<>> \/ b = <<>> \/ Head(a) # Head(b) THEN 0
    ELSE 1 + CommonPrefix(Tail(a), Tail(b))
RECURSIVE CommonSuffix(_, _)
CommonSuffix(a, b) ==
    IF a = <<>> \/ b = <<>> \/ a[Len(a)] # b[Len(b)] THEN 0
    ELSE 1 + CommonSuffix(SubSeq(a, 1, Len(a) - 1), SubSeq(b, 1, Len(b) - 1))
BlockDiff(old, new) ==
    LET p == CommonPrefix(old, new)
        s == CommonSuffix(SubSeq(old, p + 1, Len(old)), SubSeq(new, p + 1, Len(new)))
        removed == SubSeq(old, p + 1, Len(old) - s)
        added == SubSeq(new, p + 1, Len(new) - s)
    IN IF removed = <<>> /\ added = <<>> THEN <<>>
       ELSE IF removed = <<>>
            THEN <<ChangeRecord("insert", "block", NullField, p + 1, NullField, NullField,
                                NullField, <<>>, added)>>
       ELSE IF added = <<>>
            THEN <<ChangeRecord("delete", "block", p + 1, NullField, NullField, NullField,
                                NullField, removed, <<>>)>>
       ELSE <<ChangeRecord("replace", "block", p + 1, p + 1, NullField, NullField,
                           NullField, removed, added)>>

\* the Change Extractor on one pair; an absent old content is a new file
Extractor(old, new, format) ==
    IF ~new.present THEN FileDeleted(old)
    ELSE IF format \in {"kv", "plist"} /\ Parses(old.lines) /\ Parses(new.lines)
         THEN KvDiff(IF format = "kv" THEN "kv" ELSE "plist-kv", old.lines, new.lines)
    ELSE BlockDiff(old.lines, new.lines)

\* ------------------------------------------------- renderFiles on its own
\* the arrays handed to renderFiles when it is run on its own: at most
\* MaxItems records, among them records of a file named "constructor"
MaxItems ==
    3
RenderRecords == Records \cup {RecC1}
RenderInputs == UNION {[1..n -> RenderRecords] : n \in 0..MaxItems}
NoCall == [changes |-> <<>>, outcome |-> "none"]

\* ------------------------------------------------- inputs
\* what the user types into #q: "", " A", "a b"
QValues == {<<>>, <<32, 65>>, <<97, 32, 98>>}
\* the options chosen in #typeFilter and #ctxFilter
TypeValues == {<<>>, S_replace}
CtxValues == {<<>>, S_kv}
\* the values #rowsPerPage delivers: "all", "1", "2", "0", "-1", "x"
RowsPerPageValues == {S_all, <<49>>, <<50>>, <<48>>, <<45, 49>>, <<120>>}
\* the files dropped on the window
DroppedFiles ==
    {[type |-> S_application_json, text |-> t] : t \in Texts}
    \cup {[type |-> S_image_png, text |-> t] : t \in {MalformedText, ArrayText(<<RecA1>>)}}

\* ------------------------------------------------- the state after boot
\* the declarations of the script, before its last statements run
Declared ==
    [DATA |-> <<>>, LAST_FILTERED |-> <<>>, PAGE |-> 1, PAGE_SIZE |-> SizeOf(InitialPageSize),
     CURRENT_RENDERED |-> <<>>, filesEl |-> <<>>,
     summaryEl |-> [total |-> 0, replace |-> 0, insert |-> 0, delete |-> 0, kv |-> 0, block |-> 0],
     pager |-> [noResults |-> TRUE, from |-> 0, to |-> 0, total |-> 0, page |-> 0,
                totalPages |-> 0, prevDisabled |-> FALSE, nextDisabled |-> FALSE],
     qValue |-> <<>>, typeFilterValue |-> <<>>, ctxFilterValue |-> <<>>,
     pasteDialogOpen |-> FALSE, threw |-> FALSE]
\* DATA = []; applyFilters();
Booted == applyFilters([Declared EXCEPT !.DATA = <<>>])

ViewerInit ==
    /\ DATA = Booted.DATA
    /\ LAST_FILTERED = Booted.LAST_FILTERED
    /\ PAGE = Booted.PAGE
    /\ PAGE_SIZE = Booted.PAGE_SIZE
    /\ CURRENT_RENDERED = Booted.CURRENT_RENDERED
    /\ filesEl = Booted.filesEl
    /\ summaryEl = Booted.summaryEl
    /\ pager = Booted.pager
    /\ qValue = Booted.qValue
    /\ typeFilterValue = Booted.typeFilterValue
    /\ ctxFilterValue = Booted.ctxFilterValue
    /\ pasteDialogOpen = Booted.pasteDialogOpen
    /\ alertShown = NoAlert

\* the page as loaded in a browser; no extraction is part of it
Init ==
    /\ ViewerInit
    /\ pair = NoPair
    /\ output = NotRun
    /\ call = NoCall

\* ------------------------------------------------- actions
\* alert() returns when the user dismisses it; no other handler runs
\* before that.
AlertDismiss ==
    /\ alertShown # NoAlert
    /\ alertShown' = NoAlert
    /\ UNCHANGED <<view, inputs, pasteDialogOpen, extractorVars, call>>

\* While #pasteDialog is shown modally the rest of the page is inert: the
\* user reaches only the dialog; a file read started earlier still ends,
\* and a file can still be dropped on the window.

\* 'input' on #q
QInput(v) ==
    /\ alertShown = NoAlert
    /\ ~pasteDialogOpen
    /\ v # qValue
    /\ \E st \in {applyFilters([Cur EXCEPT !.qValue = v])} : Commit(st)
    /\ alertShown' = NoAlert

\* 'change' on #typeFilter
TypeFilterChange(v) ==
    /\ alertShown = NoAlert
    /\ ~pasteDialogOpen
    /\ v # typeFilterValue
    /\ \E st \in {applyFilters([Cur EXCEPT !.typeFilterValue = v])} : Commit(st)
    /\ alertShown' = NoAlert

\* 'change' on #ctxFilter
CtxFilterChange(v) ==
    /\ alertShown = NoAlert
    /\ ~pasteDialogOpen
    /\ v # ctxFilterValue
    /\ \E st \in {applyFilters([Cur EXCEPT !.ctxFilterValue = v])} : Commit(st)
    /\ alertShown' = NoAlert

\* 'click' on #clearFilters
ClearFilters ==
    /\ alertShown = NoAlert
    /\ ~pasteDialogOpen
    /\ \E st \in {clearFilters(Cur)} : Commit(st)
    /\ alertShown' = NoAlert

\* 'change' on #fileInput / #fileInputMobile, taken when the read ends
FileInputChange(txt) ==
    /\ alertShown = NoAlert
    /\ \E r \in {fileInputChange(Cur, txt)} : Commit(r.st) /\ alertShown' = r.alert

\* 'click' on #pasteJsonBtn / #pasteJsonBtnMobile
PasteJsonBtn ==
    /\ alertShown = NoAlert
    /\ ~pasteDialogOpen
    /\ pasteDialogOpen' = TRUE
    /\ UNCHANGED <<view, inputs, extractorVars, call>>
    /\ alertShown' = NoAlert

\* 'click' on #pasteApply with txt in #pasteArea
PasteApply(txt) ==
    /\ alertShown = NoAlert
    /\ pasteDialogOpen
    /\ \E r \in {pasteApply(Cur, txt)} : Commit(r.st) /\ alertShown' = r.alert

\* 'drop' on window with a file, taken when the read ends
WindowDrop(file) ==
    /\ alertShown = NoAlert
    /\ \E r \in {windowDrop(Cur, file)} : Commit(r.st) /\ alertShown' = r.alert

\* 'drop' on window with no file: if (!file) return
WindowDropNoFile ==
    /\ alertShown = NoAlert
    /\ UNCHANGED <<view, inputs, pasteDialogOpen, extractorVars, call>>
    /\ alertShown' = NoAlert

\* 'click' on #loadSample / #loadSampleMobile
LoadSample ==
    /\ alertShown = NoAlert
    /\ ~pasteDialogOpen
    /\ \E st \in {loadSample(Cur)} : Commit(st)
    /\ alertShown' = NoAlert

\* 'change' on #rowsPerPage
RowsPerPageChange(v) ==
    /\ alertShown = NoAlert
    /\ ~pasteDialogOpen
    /\ \E st \in {rowsPerPageChange(Cur, v)} : Commit(st)
    /\ alertShown' = NoAlert

\* 'click' on #pagePrev, #pageNext and on the bottom pager's #pagePrevB,
\* #pageNextB; a disabled button delivers no click
PagePrev ==
    /\ alertShown = NoAlert
    /\ ~pasteDialogOpen
    /\ ~pager.prevDisabled
    /\ \E st \in {pagePrevClick(Cur)} : Commit(st)
    /\ alertShown' = NoAlert
PageNext ==
    /\ alertShown = NoAlert
    /\ ~pasteDialogOpen
    /\ ~pager.nextDisabled
    /\ \E st \in {pageNextClick(Cur)} : Commit(st)
    /\ alertShown' = NoAlert
PagePrevB ==
    /\ alertShown = NoAlert
    /\ ~pasteDialogOpen
    /\ ~pager.prevDisabled
    /\ \E st \in {pagePrevClick(Cur)} : Commit(st)
    /\ alertShown' = NoAlert
PageNextB ==
    /\ alertShown = NoAlert
    /\ ~pasteDialogOpen
    /\ ~pager.nextDisabled
    /\ \E st \in {pageNextClick(Cur)} : Commit(st)
    /\ alertShown' = NoAlert

\* 'click' on a copy button under #files
CopyClick(idx, written) ==
    /\ alertShown = NoAlert
    /\ ~pasteDialogOpen
    /\ idx \in CopyIndices
    /\ UNCHANGED <<view, inputs, pasteDialogOpen, extractorVars, call>>
    /\ alertShown' = copyClick(Cur, idx, written)

LoadStep ==
    \/ \E txt \in Texts : FileInputChange(txt)
    \/ \E txt \in Texts : PasteApply(txt)
    \/ \E file \in DroppedFiles : WindowDrop(file)
    \/ WindowDropNoFile
    \/ PasteJsonBtn
    \/ LoadSample
FilterStep ==
    \/ \E v \in QValues : QInput(v)
    \/ \E v \in TypeValues : TypeFilterChange(v)
    \/ \E v \in CtxValues : CtxFilterChange(v)
    \/ ClearFilters
PageStep ==
    \/ \E v \in RowsPerPageValues : RowsPerPageChange(v)
    \/ PagePrev
    \/ PageNext
    \/ PagePrevB
    \/ PageNextB
CopyStep == \E idx \in 0..MaxLen, written \in BOOLEAN : CopyClick(idx, written)

Next == LoadStep \/ FilterStep \/ PageStep \/ CopyStep \/ AlertDismiss
Spec == Init /\ [][Next]_vars

\* ------------------------------------------------- one extraction
\* the extractor is handed any pair and runs once on it
InitExtract ==
    /\ ViewerInit
    /\ pair \in Pairs
    /\ output = NotRun
    /\ call = NoCall
Extract ==
    /\ ~output.ran
    /\ pair # NoPair
    /\ output' = [ran |-> TRUE, records |-> Extractor(pair.old, pair.new, pair.format)]
    /\ UNCHANGED <<view, inputs, pasteDialogOpen, alertShown, pair, call>>
NextExtract == Extract
SpecExtract == InitExtract /\ [][NextExtract]_vars

\* ------------------------------------------------- one call of renderFiles
\* renderFiles is handed any array of at most MaxItems records, among them
\* records of a file named "constructor", and runs once on it
InitRender ==
    /\ ViewerInit
    /\ pair = NoPair
    /\ output = NotRun
    /\ call \in [changes : RenderInputs, outcome : {"pending"}]
RenderFilesCall ==
    /\ call.outcome = "pending"
    /\ \E st \in {renderFiles(Cur, call.changes)} :
          /\ CURRENT_RENDERED' = st.CURRENT_RENDERED
          /\ filesEl' = st.filesEl
          /\ call' = [call EXCEPT !.outcome = IF st.threw THEN "threw" ELSE "returned"]
    /\ UNCHANGED <<DATA, LAST_FILTERED, PAGE, PAGE_SIZE, summaryEl, pager, inputs,
                   pasteDialogOpen, alertShown, extractorVars>>
NextRender == RenderFilesCall
SpecRender == InitRender /\ [][NextRender]_vars

\* ================================================= properties
HasNull(arr) == \E i \in 1..Len(arr) : arr[i].isNull
Rejected(txt) == JSONparse(txt).threw \/ ~JSONparse(txt).isArray
\* the query applyFilters reads
Query == trim(toLowerCase(qValue))
\* ceil(n / s) for s >= 1
CeilDiv(n, s) == CHOOSE k \in 0..n : k * s >= n /\ (k = 0 \/ (k - 1) * s < n)

\* ------------------------------------------------- C1
\* C1: a load whose text does not parse as JSON, or whose root is no array,
\* changes nothing of the viewer (DATA, LAST_FILTERED, PAGE, the rendered
\* page, the inputs, the dialog) on each of the three paths; it only alerts.
C1_RejectedLoadChangesNothing ==
    [][\A txt \in {t \in Texts : Rejected(t)} :
          /\ FileInputChange(txt) =>
                 (UNCHANGED <<view, inputs, pasteDialogOpen>>
                  /\ alertShown' \in {AlertSyntax, AlertRoot})
          /\ PasteApply(txt) =>
                 (UNCHANGED <<view, inputs, pasteDialogOpen>>
                  /\ alertShown' \in {AlertSyntax, AlertRoot})
          /\ \A file \in {f \in DroppedFiles : f.text = txt} :
                 WindowDrop(file) =>
                     (UNCHANGED <<view, inputs, pasteDialogOpen>>
                      /\ alertShown' \in {AlertSyntax, AlertRoot, AlertDropType})]_vars
\* a rejected paste over a loaded array shown on its second page
C1_Witness ==
    /\ alertShown = AlertRoot
    /\ pasteDialogOpen
    /\ DATA # <<>>
    /\ PAGE = 2
    /\ filesEl # <<>>

\* ------------------------------------------------- C2
\* the six searched fields of a record as strings, an absent or null one as ""
C2_Fields(c) ==
    << IF c.file.t = "string" THEN c.file.v[1] ELSE <<>>,
       IF c.property.t = "string" THEN c.property.v[1] ELSE <<>>,
       IF c.old.t = "string" THEN c.old.v[1] ELSE <<>>,
       IF c.new.t = "string" THEN c.new.v[1] ELSE <<>>,
       IF c.old_lines.t = "array" THEN join(c.old_lines.v, <<10>>) ELSE <<>>,
       IF c.new_lines.t = "array" THEN join(c.new_lines.v, <<10>>) ELSE <<>> >>
\* needle (lower case) is read in s at some position, letter case of s ignored
C2_Occurs(needle, s) ==
    \E k \in 1..(Len(s) - Len(needle) + 1) :
        \A j \in 1..Len(needle) : LowerUnit(s[k + j - 1]) = needle[j]
C2_TypeAndContext(c) ==
    /\ typeFilterValue = <<>> \/ c.change_type = Str(typeFilterValue)
    /\ ctxFilterValue = <<>> \/ c.context = Str(ctxFilterValue)
\* the claim as made: the query occurs inside one of the fields
C2_KeepsAsClaimed(c) ==
    /\ C2_TypeAndContext(c)
    /\ Query = <<>> \/ \E f \in 1..6 : C2_Occurs(Query, C2_Fields(c)[f])
\* the claim as amended: the query occurs inside the non-empty fields joined
\* by single spaces
C2_KeepsAsAmended(c) ==
    LET fields == C2_Fields(c)
        nonEmpty == SelectSeq(fields, LAMBDA f : f # <<>>)
    IN /\ C2_TypeAndContext(c)
       /\ Query = <<>> \/ C2_Occurs(Query, join(nonEmpty, <<32>>))
\* C2 (as claimed): applyFilters keeps a record iff type and context pass and
\* the query is empty or occurs inside at least one of its fields.
C2_Original ==
    /\ \A i \in 1..Len(DATA) :
          ~DATA[i].isNull =>
              (FilterKeeps(DATA[i], Query, typeFilterValue, ctxFilterValue)
                  <=> C2_KeepsAsClaimed(DATA[i]))
    /\ ~HasNull(DATA) => LAST_FILTERED = SelectSeq(DATA, C2_KeepsAsClaimed)
\* C2 (amended): applyFilters keeps a record iff type and context pass and the
\* query is empty or occurs, letter case ignored, inside the string made of
\* the record's non-empty fields joined by single spaces.
C2_Amended ==
    /\ \A i \in 1..Len(DATA) :
          ~DATA[i].isNull =>
              (FilterKeeps(DATA[i], Query, typeFilterValue, ctxFilterValue)
                  <=> C2_KeepsAsAmended(DATA[i]))
    /\ ~HasNull(DATA) => LAST_FILTERED = SelectSeq(DATA, C2_KeepsAsAmended)
\* the query "a b" keeps one record of two, by a match that spans two fields
C2_Witness ==
    /\ Query = <<97, 32, 98>>
    /\ ~HasNull(DATA)
    /\ Len(DATA) = 2
    /\ Len(LAST_FILTERED) = 1
    /\ ~C2_KeepsAsClaimed(LAST_FILTERED[1])

\* ------------------------------------------------- C3
\* the page renderFiles makes of the items of page p
C3_PageGroups(p) ==
    renderFiles(Cur, computePage(LAST_FILTERED, p, PAGE_SIZE).pageItems).filesEl
\* the names of the groups met going through pages p..last in order
RECURSIVE C3_GroupNames(_, _)
C3_GroupNames(p, last) ==
    IF p > last THEN <<>>
    ELSE [g \in 1..Len(C3_PageGroups(p)) |-> C3_PageGroups(p)[g].fname]
         \o C3_GroupNames(p + 1, last)
\* C3: going through pages 1..totalPages in order, the groups come in
\* ascending order of file name and no file has more than one group.
C3_SortedAcrossPages ==
    ~HasNull(LAST_FILTERED) =>
        LET names == C3_GroupNames(1, computePage(LAST_FILTERED, 1, PAGE_SIZE).totalPages)
        IN \A i, j \in 1..Len(names) : i < j => StrLess(names[i], names[j])

\* ------------------------------------------------- C4
\* the state the claim gives for an accepted array
C4_Accepted(elems) ==
    /\ DATA' = elems
    /\ UNCHANGED inputs
    /\ LAST_FILTERED' = SelectRecs(elems, Query, typeFilterValue, ctxFilterValue)
    /\ PAGE' = 1
    /\ alertShown' = NoAlert
\* C4: every text that parses as a JSON array is accepted on each of the
\* three paths: DATA is the parsed array, the filter inputs are kept and
\* re-applied, PAGE is 1, and nothing is reported.
C4_AnyArrayAccepted ==
    [][\A a \in Arrays :
          /\ FileInputChange(ArrayText(a)) => C4_Accepted(a)
          /\ PasteApply(ArrayText(a)) => C4_Accepted(a)
          /\ WindowDrop([type |-> S_application_json, text |-> ArrayText(a)])
                 => C4_Accepted(a)]_vars

\* ------------------------------------------------- C5
Occurs(r, arr) == \E p \in 1..Len(arr) : arr[p] = r
\* C5: two records of DATA shown in the same group are shown in the order
\* they have in DATA.
C5_GroupOrderIsDataOrder ==
    \A g \in 1..Len(filesEl) :
        \A i, j \in 1..Len(filesEl[g].items) :
            LET r1 == filesEl[g].items[i].ch
                r2 == filesEl[g].items[j].ch
            IN (i < j /\ r1 # r2 /\ Occurs(r1, DATA) /\ Occurs(r2, DATA)) =>
                   \E p, q \in 1..Len(DATA) : p < q /\ DATA[p] = r1 /\ DATA[q] = r2

\* ------------------------------------------------- C6
\* C6: DATA changes only in a load step whose text parsed as an array and in
\* the "Load sample" step; the filter, clear, page, page-size and copy steps
\* leave it as it is.
C6_DataReadOnly ==
    [][DATA' # DATA =>
          /\ \/ FileInputChange(ArrayText(DATA'))
             \/ PasteApply(ArrayText(DATA'))
             \/ WindowDrop([type |-> S_application_json, text |-> ArrayText(DATA')])
             \/ LoadSample
          /\ ~(FilterStep \/ PageStep \/ CopyStep \/ AlertDismiss)]_vars
\* a filter, a page-size change and a Next click have acted on a loaded array
C6_Witness ==
    /\ Len(DATA) = 2
    /\ Query # <<>>
    /\ ~PAGE_SIZE.all /\ PAGE_SIZE.n = 1
    /\ PAGE = 2
    /\ LAST_FILTERED = DATA

\* ------------------------------------------------- C7
RECURSIVE C7_Concat(_, _)
C7_Concat(p, last) ==
    IF p > last THEN <<>>
    ELSE computePage(LAST_FILTERED, p, PAGE_SIZE).pageItems \o C7_Concat(p + 1, last)
\* C7: for the filtered list (n records) and the page size s, pages
\* 1..max(1, ceil(n/s)) are consecutive slices of at most s records, the
\* first starting at 0 and each at the end of the one before, and together
\* they are LAST_FILTERED; with 'all' the one page holds the n records.
C7_PagesPartitionFiltered ==
    LET n == Len(LAST_FILTERED)
        last == IF PAGE_SIZE.all \/ n = 0 THEN 1 ELSE Max(1, CeilDiv(n, PAGE_SIZE.n))
        pg(p) == computePage(LAST_FILTERED, p, PAGE_SIZE)
    IN /\ pg(1).totalPages = last
       /\ pg(1).start = 0
       /\ \A p \in 1..last :
             /\ pg(p).page = p
             /\ pg(p).pageItems = SubSeq(LAST_FILTERED, pg(p).start + 1, pg(p).end)
             /\ pg(p).start <= pg(p).end
             /\ PAGE_SIZE.all \/ pg(p).end - pg(p).start <= PAGE_SIZE.n
             /\ p < last => pg(p + 1).start = pg(p).end
       /\ pg(last).end = n
       /\ C7_Concat(1, last) = LAST_FILTERED
       /\ PAGE_SIZE.all => pg(1).pageItems = LAST_FILTERED
\* three filtered records in pages of two, the second page shown
C7_Witness ==
    /\ Len(LAST_FILTERED) = 3
    /\ ~PAGE_SIZE.all /\ PAGE_SIZE.n = 2
    /\ PAGE = 2
    /\ Len(CURRENT_RENDERED) = 1

\* ------------------------------------------------- C8
C8_RecordInvariant(c) ==
    /\ c.context = Str(S_block) =>
           /\ c.old_lines.t = "array" /\ c.new_lines.t = "array"
           /\ c.old.t = "undefined" /\ c.new.t = "undefined"
    /\ c.context = Str(S_kv) =>
           /\ c.old.t # "undefined" /\ c.new.t # "undefined"
           /\ c.property.t = "string"
           /\ c.old_lines.t = "undefined" /\ c.new_lines.t = "undefined"
    /\ c.change_type = Str(S_file_deleted) =>
           /\ c.context = Str(S_block)
           /\ c.old_lines = Arr(<<>>) /\ c.new_lines = Arr(<<>>)
\* C8: every record that "Load sample" puts into DATA satisfies the Change
\* Record invariants (block: line content and no old/new; kv: old/new, a
\* property and no line content; file-deleted: block with no lines).
C8_SampleRecordsWellFormed ==
    [][LoadSample =>
          /\ Len(DATA') = 3
          /\ \A i \in 1..Len(DATA') : ~DATA'[i].isNull /\ C8_RecordInvariant(DATA'[i])
          /\ \E i \in 1..Len(DATA') : DATA'[i].change_type = Str(S_file_deleted)]_vars
\* the sample is loaded and shown
C8_Witness ==
    /\ DATA = SampleData
    /\ Len(CURRENT_RENDERED) = 3
    /\ \E i \in 1..3 : DATA[i].context = Str(S_kv)
    /\ \E i \in 1..3 : DATA[i].change_type = Str(S_file_deleted)

\* ------------------------------------------------- C10
\* C10: PAGE_SIZE is 'all' or a number >= 1, and 1 <= PAGE <= totalPages with
\* totalPages = max(1, ceil(|LAST_FILTERED| / size)).
C10_PageInvariant ==
    LET n == Len(LAST_FILTERED)
        totalPages == IF PAGE_SIZE.all \/ n = 0 THEN 1 ELSE Max(1, CeilDiv(n, PAGE_SIZE.n))
    IN /\ PAGE_SIZE.all \/ PAGE_SIZE.n >= 1
       /\ 1 <= PAGE
       /\ PAGE <= totalPages
\* the last of several pages is shown
C10_Witness ==
    /\ ~PAGE_SIZE.all
    /\ Len(LAST_FILTERED) = 3
    /\ PAGE_SIZE.n = 1
    /\ PAGE = 3

\* ------------------------------------------------- C9
\* C9: when the old and the new content of the pair are the same content,
\* the Extractor emits no record.
C9_EqualContentsNoRecords ==
    (output.ran /\ pair.old.present /\ pair.new.present
         /\ pair.old.lines = pair.new.lines)
        => output.records = <<>>
\* the extractor ran on two equal key-value contents of MaxLines lines
C9_Witness ==
    /\ output.ran
    /\ pair.old.present /\ pair.new.present
    /\ pair.old.lines = pair.new.lines
    /\ Len(pair.new.lines) >= 2
    /\ pair.format = "kv" /\ Parses(pair.new.lines)
    /\ output.records = <<>>

\* ------------------------------------------------- C11
\* C11: in every state a handler leaves, LAST_FILTERED is the subsequence of
\* DATA, in the order of DATA, of the elements that pass the current query,
\* type filter and context filter.
C11_FilteredMatchesInputs ==
    LAST_FILTERED = SelectRecs(DATA, Query, typeFilterValue, ctxFilterValue)

\* ------------------------------------------------- C12
\* a load step whose text parsed as an array (DATA is then that array)
C12_ArrayLoad ==
    \/ FileInputChange(ArrayText(DATA'))
    \/ PasteApply(ArrayText(DATA'))
    \/ WindowDrop([type |-> S_application_json, text |-> ArrayText(DATA')])
\* C12: a change of the query, the type or the context filter, a click on
\* "Clear filters", a load of an array, "Load sample" and a page-size change
\* all end with PAGE = 1; only a Prev or Next click moves PAGE to another
\* value than 1.
C12_ResetsToFirstPage ==
    [][/\ (FilterStep \/ C12_ArrayLoad \/ LoadSample
              \/ \E v \in RowsPerPageValues : RowsPerPageChange(v)) => PAGE' = 1
       /\ (PAGE' # PAGE /\ PAGE' # 1) =>
              (PagePrev \/ PageNext \/ PagePrevB \/ PageNextB)]_vars

\* ------------------------------------------------- C13
\* the items of the current page
C13_PageItems == computePage(LAST_FILTERED, PAGE, PAGE_SIZE).pageItems
\* C13: CURRENT_RENDERED holds the records of the current page, each as
\* often as the page holds it, and the button with data-copy-change = i is
\* drawn on the record CURRENT_RENDERED[i].
C13_CopyCopiesDrawnRecord ==
    /\ Len(CURRENT_RENDERED) = Len(C13_PageItems)
    /\ \A k \in 1..Len(C13_PageItems) :
          Count(CURRENT_RENDERED, LAMBDA x : x = C13_PageItems[k])
              = Count(C13_PageItems, LAMBDA x : x = C13_PageItems[k])
    /\ \A g \in 1..Len(filesEl) :
          \A i \in 1..Len(filesEl[g].items) :
              LET item == filesEl[g].items[i]
              IN /\ item.copyChange + 1 \in 1..Len(CURRENT_RENDERED)
                 /\ CURRENT_RENDERED[item.copyChange + 1] = item.ch

\* ------------------------------------------------- C14
\* the file names of the records handed to renderFiles
C14_Files == {call.changes[i].file.v[1] : i \in 1..Len(call.changes)}
\* C14: renderFiles, given any array of records, returns with one group per
\* distinct file among them, the groups in ascending order of file name,
\* every record under the group of its own file, and the group sizes summing
\* to the number of records.
C14_OneGroupPerFile ==
    call.outcome \in {"returned", "threw"} =>
        /\ call.outcome = "returned"
        /\ Len(filesEl) = Cardinality(C14_Files)
        /\ \A f \in C14_Files : \E g \in 1..Len(filesEl) : filesEl[g].fname = f
        /\ \A g, h \in 1..Len(filesEl) :
              g < h => StrLess(filesEl[g].fname, filesEl[h].fname)
        /\ \A g \in 1..Len(filesEl) :
              \A i \in 1..Len(filesEl[g].items) :
                  filesEl[g].items[i].ch.file.v[1] = filesEl[g].fname
        /\ Len(CURRENT_RENDERED) = Len(call.changes)
        /\ \A k \in 1..Len(call.changes) :
              Count(CURRENT_RENDERED, LAMBDA x : x = call.changes[k])
                  = Count(call.changes, LAMBDA x : x = call.changes[k])

\* ------------------------------------------------- C15
\* the cards describe LAST_FILTERED as a whole
C15_Cards ==
    /\ summaryEl.total = Len(LAST_FILTERED)
    /\ summaryEl.replace = Count(LAST_FILTERED, LAMBDA c : c.change_type = Str(S_replace))
    /\ summaryEl.insert = Count(LAST_FILTERED, LAMBDA c : c.change_type = Str(S_insert))
    /\ summaryEl.delete = Count(LAST_FILTERED, LAMBDA c : c.change_type = Str(S_delete))
    /\ summaryEl.kv = Count(LAST_FILTERED, LAMBDA c : c.context = Str(S_kv))
                      + Count(LAST_FILTERED, LAMBDA c : c.context = Str(S_plist_kv))
    /\ summaryEl.block = Count(LAST_FILTERED, LAMBDA c : c.context = Str(S_block))
\* C15: after every step the summary cards give the size of LAST_FILTERED,
\* its records of each change type and of the kv / plist-kv and block
\* contexts, and a Prev or Next click or a page-size change leaves the cards
\* as they are.
C15_SummaryDescribesFiltered ==
    [][/\ C15_Cards'
       /\ PageStep => summaryEl' = summaryEl]_vars

\* ------------------------------------------------- C16
\* the pager as the claim has it for the current page
C16_Pager ==
    LET totalPages == computePage(LAST_FILTERED, PAGE, PAGE_SIZE).totalPages
    IN /\ pager.prevDisabled <=> PAGE = 1
       /\ pager.nextDisabled <=> PAGE = totalPages
       /\ pager.noResults <=> LAST_FILTERED = <<>>
\* C16: after every step Prev is disabled iff PAGE = 1, Next iff PAGE is the
\* last page, and the label is 'No results' iff LAST_FILTERED is empty; a
\* Prev click at page 1 and a Next click at the last page change neither
\* PAGE nor what is displayed.
C16_DisabledIffNoMove ==
    [][/\ C16_Pager'
       /\ (PAGE = 1 /\ (PagePrev \/ PagePrevB)) =>
              UNCHANGED <<PAGE, filesEl, CURRENT_RENDERED, pager, summaryEl>>
       /\ (PAGE = computePage(LAST_FILTERED, PAGE, PAGE_SIZE).totalPages
               /\ (PageNext \/ PageNextB)) =>
              UNCHANGED <<PAGE, filesEl, CURRENT_RENDERED, pager, summaryEl>>]_vars
====
